---- MODULE Spec2Model ----
(***************************************************************************)
(* withings-sync: the orchestrator sync() of src/withings_sync/sync.py.    *)
(*                                                                         *)
(* sync() fetches the measurement groups of a Withings account, drives a   *)
(* FitEncoder_Weight through write_file_info / write_file_creator / one    *)
(* write_device_info + write_weight_scale pair per weight-bearing group /  *)
(* finish, and hands the buffer to stdout (--no-upload) or to TrainerRoad  *)
(* and Garmin Connect.                                                     *)
(*                                                                         *)
(* Units.  Python floats are modelled as exact integers in fixed units:    *)
(*   masses (weight, hydration, muscle, bone)  1/100 kg   (70.0 kg = 7000) *)
(*   height                                    1/100 m    (1.75 m  = 175)  *)
(*   bmi, TrainerRoad weight                   1/10       (22.9    = 229)  *)
(*   percent_hydration                         exact fraction <<n, d>>     *)
(* An optional Python value is a sequence: None is <<>>, a value v is <<v>>.*)
(***************************************************************************)
EXTENDS Integers, Sequences, FiniteSets, TLC

\* ------------------------------------------------------------------ bounds
MaxLen == 2        \* longest list getMeasurements returns
MaxT   == 2        \* timestamps of the groups are 1..MaxT

\* ------------------------------------------------------- optional values
None == <<>>
Some(v) == <<v>>
Val(x) == x[1]

\* Python truth value of an optional number: None and 0 are both false.
Truthy(x) == IF x = None THEN FALSE ELSE x[1] # 0

\* Python truth value of an optional string: None and '' are both false.
TruthyStr(x) == IF x = None THEN FALSE ELSE x[1] # ""

\* ------------------------------------------------------------- arithmetic
RECURSIVE Gcd(_, _)
Gcd(a, b) == IF b = 0 THEN a ELSE Gcd(b, a % b)

\* The exact quotient n / d (d > 0) as a fraction in lowest terms.
Frac(n, d) == LET g == Gcd(n, d) IN <<n \div g, d \div g>>

\* round(n / d) to the nearest integer, halves to even (Python's round()).
RoundDiv(n, d) ==
    LET q == n \div d
        r == n % d
    IN  IF 2 * r < d THEN q
        ELSE IF 2 * r > d THEN q + 1
        ELSE IF q % 2 = 0 THEN q ELSE q + 1

\* ------------------------------------------------------------ input pools
Timestamps == 1..MaxT

\* The sub-measurements of a group, as the getters of lines 119-124 return
\* them: weight, fat ratio, muscle mass, hydration mass, bone mass, raw data.
Kinds ==
    { [weight |-> None,       fat_ratio |-> Some(20), muscle_mass |-> None,
       hydration |-> Some(3500), bone_mass |-> None,  raw_data |-> <<"fat", "hydration">>],
      [weight |-> Some(0),    fat_ratio |-> None,     muscle_mass |-> None,
       hydration |-> None,    bone_mass |-> None,     raw_data |-> <<"weight">>],
      [weight |-> Some(7000), fat_ratio |-> None,     muscle_mass |-> None,
       hydration |-> Some(3500), bone_mass |-> None,  raw_data |-> <<"weight">>],
      [weight |-> Some(7104), fat_ratio |-> Some(20), muscle_mass |-> Some(3000),
       hydration |-> Some(0), bone_mass |-> Some(300), raw_data |-> <<"weight">>] }

Group(t, k) ==
    [dt |-> t, weight |-> k.weight, fat_ratio |-> k.fat_ratio,
     muscle_mass |-> k.muscle_mass, hydration |-> k.hydration,
     bone_mass |-> k.bone_mass, raw_data |-> k.raw_data]

Groups == { Group(t, k) : t \in Timestamps, k \in Kinds }

GroupLists == UNION { [1..n -> Groups] : n \in 0..MaxLen }

Heights == {None, Some(0), Some(175)}
Usernames == {None, Some("user")}
Dates == {None, Some(1)}

\* ------------------------------------------------------------------ state
VARIABLES
    trainerroad_username,  \* argument of sync()
    garmin_username,       \* argument of sync()
    fromdate,              \* argument of sync()
    no_upload,             \* argument of sync()
    verbose,               \* argument of sync()
    height,                \* result of withings.getHeight()
    groups,                \* result of withings.getMeasurements(): None or a list
    pc,                    \* position in sync()
    idx,                   \* index of the group the for loop takes next
    last_dt,               \* local last_dt
    last_weight,           \* local last_weight
    calls,                 \* the calls made on the FitEncoder_Weight, in order
    stdout,                \* what was written to sys.stdout, in order
    ext,                   \* the calls made on Withings, TrainerRoad and Garmin
    ret                    \* return value of sync(), "running" until it returns

vars == <<trainerroad_username, garmin_username, fromdate, no_upload, verbose,
          height, groups, pc, idx, last_dt, last_weight, calls, stdout, ext, ret>>

args == <<trainerroad_username, garmin_username, fromdate, no_upload, verbose,
          height, groups>>

\* ---------------------------------------------------------------- logging
\* logging.basicConfig(level = DEBUG if verbose else INFO, stream = sys.stdout):
\* every record at or above the level is a line on sys.stdout.
Log(level, text) ==
    IF level = "DEBUG" /\ ~verbose THEN <<>>
    ELSE <<[kind |-> "log", level |-> level, data |-> text]>>

\* logging.debug(dataentry) for each entry of raw_data.
RECURSIVE LogEach(_)
LogEach(entries) ==
    IF entries = <<>> THEN <<>>
    ELSE Log("DEBUG", Head(entries)) \o LogEach(Tail(entries))

\* ---------------------------------------------------------------- encoder
FileInfoCall == [op |-> "write_file_info"]
FileCreatorCall == [op |-> "write_file_creator"]
FinishCall == [op |-> "finish"]
GetValueCall == [op |-> "getvalue"]
DeviceInfoCall(dt) == [op |-> "write_device_info", timestamp |-> dt]
WeightScaleCall(dt, weight, fat_ratio, percent_hydration, bone_mass, muscle_mass, bmi) ==
    [op |-> "write_weight_scale", timestamp |-> dt, weight |-> weight,
     percent_fat |-> fat_ratio, percent_hydration |-> percent_hydration,
     bone_mass |-> bone_mass, muscle_mass |-> muscle_mass, bmi |-> bmi]

\* The buffer getvalue() returns: determined by the writes the encoder received.
FitBuffer(cs) == SelectSeq(cs, LAMBDA c : c.op # "getvalue")

\* ------------------------------------------------------------ sync(): init
Init ==
    /\ trainerroad_username \in Usernames
    /\ garmin_username \in Usernames
    /\ fromdate \in Dates
    /\ no_upload \in BOOLEAN
    /\ verbose \in BOOLEAN
    /\ height \in Heights
    /\ groups \in {None} \cup { Some(l) : l \in GroupLists }
    /\ pc = "start"
    /\ idx = 0
    /\ last_dt = None
    /\ last_weight = None
    /\ calls = <<>>
    /\ stdout = <<>>
    /\ ext = <<>>
    /\ ret = "running"

\* Lines 80-100: configure logging, open the account, fetch height and groups.
StartCalls ==
    (IF fromdate = None THEN <<[op |-> "withings.getLastSync"]>> ELSE <<>>)
    \o <<[op |-> "withings.getHeight"], [op |-> "withings.getMeasurements"]>>

Fetch ==
    /\ pc = "start"
    /\ ext' = ext \o StartCalls
    /\ stdout' = stdout \o Log("INFO", "Fetching measurements")
    /\ pc' = "fetched"
    /\ UNCHANGED <<args, idx, last_dt, last_weight, calls, ret>>

\* Variant of the test of line 103: an empty list is not rejected.
NoGroupsOnlyNone(gs) == gs = None

\* Line 103: groups is None or len(groups) == 0.
NoGroups(gs) == IF gs = None THEN TRUE ELSE Len(Val(gs)) = 0

\* Lines 103-105.
NoMeasurements ==
    /\ pc = "fetched"
    /\ NoGroups(groups)
    /\ stdout' = stdout \o Log("ERROR", "No measurements to upload")
    /\ ret' = "-1"
    /\ pc' = "done"
    /\ UNCHANGED <<args, idx, last_dt, last_weight, calls, ext>>

\* Variant of lines 110-111: the two file-level records in the other order.
FileHeaderSwapped == <<[op |-> "write_file_creator"], [op |-> "write_file_info"]>>

\* Lines 110-111: the file-level records, in the order sync() writes them.
FileHeaderCalls == <<FileInfoCall, FileCreatorCall>>

\* Lines 107-114.
CreateFit ==
    /\ pc = "fetched"
    /\ ~NoGroups(groups)
    /\ stdout' = stdout \o Log("DEBUG", "Generating fit file...")
    /\ calls' = calls \o FileHeaderCalls
    /\ last_dt' = None
    /\ last_weight' = None
    /\ idx' = 1
    /\ pc' = "loop"
    /\ UNCHANGED <<args, ext, ret>>

\* Variants of the test of line 126: no group is skipped; a weight of 0 is
\* skipped as well.
NoWeightNever(weight) == FALSE
NoWeightFalsy(weight) == ~Truthy(weight)

\* Line 126: weight is None.
NoWeight(weight) == weight = None

\* Lines 133-136.
ComputeBmi(h, weight) ==
    IF Truthy(h) /\ Truthy(weight)
    THEN Some(RoundDiv(1000 * Val(weight), Val(h) * Val(h)))
    ELSE None

\* Lines 138-141.
ComputeHydration(hydration, weight) ==
    IF Truthy(hydration) /\ Truthy(weight)
    THEN Some(Frac(100 * Val(hydration), Val(weight)))
    ELSE None

\* Variants of the test of line 162: every group replaces the last one; a
\* group with an equal timestamp replaces it too.
NewerAlways(dt, last) == TRUE
NewerOrEqual(dt, last) == IF last = None THEN TRUE ELSE dt >= Val(last)

\* Line 162: last_dt is None or dt > last_dt.
Newer(dt, last) == IF last = None THEN TRUE ELSE dt > Val(last)

\* Variant of lines 144-150: bone_mass and muscle_mass passed the other way
\* round.
RecordCallsSwapped(g) ==
    << DeviceInfoCall(g.dt),
       WeightScaleCall(g.dt, g.weight, g.fat_ratio,
                       ComputeHydration(g.hydration, g.weight),
                       g.muscle_mass, g.bone_mass,
                       ComputeBmi(height, g.weight)) >>

\* Variant of lines 143-150: the device record is written in verbose runs
\* only (the call moved next to the debug logging).
RecordCallsWhenVerbose(g) ==
    (IF verbose THEN <<DeviceInfoCall(g.dt)>> ELSE <<>>)
    \o << WeightScaleCall(g.dt, g.weight, g.fat_ratio,
                          ComputeHydration(g.hydration, g.weight),
                          g.bone_mass, g.muscle_mass,
                          ComputeBmi(height, g.weight)) >>

\* Lines 143-150: the records written for one weight-bearing group.
RecordCalls(g) ==
    << DeviceInfoCall(g.dt),
       WeightScaleCall(g.dt, g.weight, g.fat_ratio,
                       ComputeHydration(g.hydration, g.weight),
                       g.bone_mass, g.muscle_mass,
                       ComputeBmi(height, g.weight)) >>

\* Line 116: the loop takes the next group.
NextIdx(i) == i + 1

\* Lines 116-131: a group without weight is logged and skipped.
SkipGroup ==
    /\ pc = "loop"
    /\ idx <= Len(Val(groups))
    /\ LET g == Val(groups)[idx] IN
        /\ NoWeight(g.weight)
        /\ stdout' = stdout \o Log("INFO", "This Withings metric contains no weight data")
                            \o Log("DEBUG", "Detected data: ")
                            \o LogEach(g.raw_data)
    /\ idx' = NextIdx(idx)
    /\ UNCHANGED <<args, pc, last_dt, last_weight, calls, ext, ret>>

\* Lines 116-164: a weight-bearing group is written and may become the last.
WriteGroup ==
    /\ pc = "loop"
    /\ idx <= Len(Val(groups))
    /\ LET g == Val(groups)[idx] IN
        /\ ~NoWeight(g.weight)
        /\ calls' = calls \o RecordCalls(g)
        /\ stdout' = stdout \o Log("DEBUG", "Record")
        /\ IF Newer(g.dt, last_dt)
           THEN last_dt' = Some(g.dt) /\ last_weight' = g.weight
           ELSE UNCHANGED <<last_dt, last_weight>>
    /\ idx' = NextIdx(idx)
    /\ UNCHANGED <<args, pc, ext, ret>>

\* Variant of line 166: the loop ends without the call of finish().
FinishForgotten ==
    /\ pc = "loop"
    /\ idx > Len(Val(groups))
    /\ pc' = "finished"
    /\ UNCHANGED <<trainerroad_username, garmin_username, fromdate, no_upload,
                   verbose, height, groups, idx, last_dt, last_weight, calls,
                   stdout, ext, ret>>

\* Line 166: the loop is over.
Finish ==
    /\ pc = "loop"
    /\ idx > Len(Val(groups))
    /\ calls' = Append(calls, FinishCall)
    /\ pc' = "finished"
    /\ UNCHANGED <<args, idx, last_dt, last_weight, stdout, ext, ret>>

\* Variant of the test of line 168: the weight is checked only on the upload
\* path (the tests of lines 168 and 172 in the other order).
WeightInvalidOnUploadOnly == last_weight = None /\ ~no_upload

\* Line 168: last_weight is None.
WeightInvalid == last_weight = None

\* Variant of the test of line 172: the flag is ignored.
NoUploadIgnored == FALSE

\* Line 172: no_upload.
NoUploadSet == no_upload

\* Lines 168-170.
InvalidWeight ==
    /\ pc = "finished"
    /\ WeightInvalid
    /\ stdout' = stdout \o Log("ERROR", "Invalid weight")
    /\ ret' = "-1"
    /\ pc' = "done"
    /\ UNCHANGED <<args, idx, last_dt, last_weight, calls, ext>>

\* Lines 172-174.
NoUpload ==
    /\ pc = "finished"
    /\ ~WeightInvalid
    /\ NoUploadSet
    /\ calls' = Append(calls, GetValueCall)
    /\ stdout' = Append(stdout, [kind |-> "fit", level |-> "", data |-> FitBuffer(calls)])
    /\ ret' = "0"
    /\ pc' = "done"
    /\ UNCHANGED <<args, idx, last_dt, last_weight, ext>>

\* Line 188: round(last_weight, 1), in tenths of a kilogram.
RoundWeight(w) == RoundDiv(w, 10)

\* Variant of lines 182-189: the weight is set after disconnect().
TrainerRoadCallsLate(w) ==
    << [op |-> "tr.connect"],
       [op |-> "tr.weight.get"],
       [op |-> "tr.disconnect"],
       [op |-> "tr.weight", value |-> RoundDiv(w, 10)] >>

\* Lines 182-189: connect, read tr.weight for the log record of line 185,
\* set tr.weight, disconnect.
TrainerRoadCalls(w) ==
    << [op |-> "tr.connect"],
       [op |-> "tr.weight.get"],
       [op |-> "tr.weight", value |-> RoundWeight(w)],
       [op |-> "tr.disconnect"] >>

\* Lines 176-194.
TrainerRoadSync ==
    /\ pc = "finished"
    /\ ~WeightInvalid
    /\ ~NoUploadSet
    /\ IF TruthyStr(trainerroad_username)
       THEN /\ ext' = ext \o TrainerRoadCalls(Val(last_weight))
            /\ stdout' = stdout \o Log("INFO", "Trainerroad username set -- attempting to sync")
                                \o Log("INFO", " Last weight")
                                \o Log("INFO", " Measured")
                                \o Log("INFO", "Current TrainerRoad weight")
                                \o Log("INFO", "Updating TrainerRoad weight")
                                \o Log("INFO", "TrainerRoad update done!")
       ELSE /\ ext' = ext
            /\ stdout' = stdout \o Log("INFO", "No Trainerroad username - skipping sync")
    /\ pc' = "garmin"
    /\ UNCHANGED <<args, idx, last_dt, last_weight, calls, ret>>

\* Variant of lines 202-205: setLastSync() whatever upload_file returned.
LastSyncCallsAnyResult(r) ==
    IF fromdate = None THEN <<[op |-> "withings.setLastSync"]>> ELSE <<>>

\* Lines 202-205: setLastSync() after a successful upload without fromdate.
LastSyncCalls(r) ==
    IF r /\ fromdate = None THEN <<[op |-> "withings.setLastSync"]>> ELSE <<>>

\* Lines 196-209; r is what garmin.upload_file returns.
GarminUpload ==
    /\ pc = "garmin"
    /\ IF TruthyStr(garmin_username)
       THEN \E r \in BOOLEAN :
            /\ calls' = Append(calls, GetValueCall)
            /\ ext' = ext \o << [op |-> "garmin.login"],
                                [op |-> "garmin.upload_file", data |-> FitBuffer(calls),
                                 result |-> r] >>
                          \o LastSyncCalls(r)
            /\ stdout' = stdout \o Log("DEBUG", "attempting to upload fit file...")
                                \o (IF r THEN Log("INFO", "Fit file uploaded to Garmin Connect")
                                         ELSE <<>>)
       ELSE /\ calls' = calls
            /\ ext' = ext
            /\ stdout' = stdout \o Log("INFO", "No Garmin username - skipping sync")
    /\ ret' = "None"
    /\ pc' = "done"
    /\ UNCHANGED <<args, idx, last_dt, last_weight>>

Next ==
    \/ Fetch
    \/ NoMeasurements
    \/ CreateFit
    \/ SkipGroup
    \/ WriteGroup
    \/ Finish
    \/ InvalidWeight
    \/ NoUpload
    \/ TrainerRoadSync
    \/ GarminUpload

Spec == Init /\ [][Next]_vars

\* -------------------------------------------------------------- well-typed
TypeOK ==
    /\ pc \in {"start", "fetched", "loop", "finished", "garmin", "done"}
    /\ ret \in {"running", "-1", "0", "None"}
    /\ (ret = "running") <=> (pc # "done")

\* ------------------------------------------------- vocabulary of the claims
\* The groups the for loop has gone through so far.
Processed == IF idx = 0 THEN <<>> ELSE SubSeq(Val(groups), 1, idx - 1)

HasWeight(g) == g.weight # None
WeightBearing(gs) == SelectSeq(gs, HasWeight)

MaxDt(gs) == CHOOSE t \in { gs[i].dt : i \in 1..Len(gs) } :
                 \A i \in 1..Len(gs) : gs[i].dt <= t
FirstAt(gs, t) == CHOOSE i \in 1..Len(gs) :
                      /\ gs[i].dt = t
                      /\ \A j \in 1..(i - 1) : gs[j].dt # t

WeightScaleCalls == SelectSeq(calls, LAMBDA c : c.op = "write_weight_scale")
DeviceInfoCalls == SelectSeq(calls, LAMBDA c : c.op = "write_device_info")
Count(seq, o) == Cardinality({ i \in 1..Len(seq) : seq[i].op = o })

\* The loop is at a group (line 116) / at a group that has no weight.
AtGroup == pc = "loop" /\ idx <= Len(Val(groups))
AtWeightless == IF AtGroup THEN Val(groups)[idx].weight = None ELSE FALSE

\* C1: after every loop iteration last_dt is the greatest timestamp of the
\* weight-bearing groups processed so far, and last_weight is the weight of a
\* processed weight-bearing group with that timestamp (not of the last one).
C1_LastIsGreatest ==
    LET wb == WeightBearing(Processed) IN
    wb # <<>> =>
        /\ last_dt = Some(MaxDt(wb))
        /\ \E i \in 1..Len(wb) : wb[i].dt = MaxDt(wb) /\ wb[i].weight = last_weight

\* C1 witness: two weight-bearing groups were processed, the first with the
\* greater timestamp, and the first one's weight is reported.
C1_Witness ==
    /\ pc = "finished"
    /\ Len(Val(groups)) = 2
    /\ LET a == Val(groups)[1]
           b == Val(groups)[2]
       IN  /\ HasWeight(a) /\ HasWeight(b)
           /\ a.dt > b.dt /\ a.weight # b.weight
           /\ last_dt = Some(a.dt) /\ last_weight = a.weight

\* C2: among the weight-bearing groups that share the greatest timestamp, the
\* first in input order gives last_weight.
C2_TieKeepsFirst ==
    LET wb == WeightBearing(Processed) IN
    wb # <<>> => last_weight = wb[FirstAt(wb, MaxDt(wb))].weight

\* C2 witness: two weight-bearing groups with the same timestamp and different
\* weights were processed; the first one's weight is kept.
C2_Witness ==
    /\ pc = "finished"
    /\ Len(Val(groups)) = 2
    /\ LET a == Val(groups)[1]
           b == Val(groups)[2]
       IN  /\ HasWeight(a) /\ HasWeight(b)
           /\ a.dt = b.dt /\ a.weight # b.weight
           /\ last_weight = a.weight

\* C3: every write_weight_scale call carries a weight that is not None, and a
\* step of the loop at a group without weight makes no encoder call, leaves
\* last_dt and last_weight alone and goes on to the next group.
C3_WeightsWritten ==
    \A i \in 1..Len(calls) :
        calls[i].op = "write_weight_scale" => calls[i].weight # None

C3_SkipStep ==
    AtWeightless =>
        /\ calls' = calls
        /\ last_dt' = last_dt
        /\ last_weight' = last_weight
        /\ pc' = "loop"
        /\ idx' = idx + 1

C3_WeightlessSkipped == []C3_WeightsWritten /\ [][C3_SkipStep]_vars

\* C3 witness: the first group had no weight, nothing was written for it, and
\* the group after it was written.
C3_Witness ==
    /\ pc = "finished"
    /\ Len(Val(groups)) = 2
    /\ ~HasWeight(Val(groups)[1])
    /\ HasWeight(Val(groups)[2])
    /\ Len(WeightScaleCalls) = 1
    /\ Len(DeviceInfoCalls) = 1
    /\ WeightScaleCalls[1].timestamp = Val(groups)[2].dt
    /\ last_weight = Val(groups)[2].weight

\* The input has no weight-bearing group: groups is None, empty, or every
\* group has weight None.
NoWeightBearingInput ==
    IF groups = None THEN TRUE ELSE WeightBearing(Val(groups)) = <<>>

FitWrites == SelectSeq(stdout, LAMBDA e : e.kind = "fit")
ExtOps == { ext[i].op : i \in 1..Len(ext) }
UploadOps == {"tr.connect", "tr.weight.get", "tr.weight", "tr.disconnect",
              "garmin.login", "garmin.upload_file", "withings.setLastSync"}

\* C4 as stated: with no weight-bearing group sync() returns -1, nothing is
\* written to stdout, getvalue() is never called and nothing is uploaded.
C4_Original ==
    (NoWeightBearingInput /\ pc = "done") =>
        /\ ret = "-1"
        /\ stdout = <<>>
        /\ Count(calls, "getvalue") = 0
        /\ ExtOps \cap UploadOps = {}

\* C4 amended: with no weight-bearing group sync() returns -1 and hands out no
\* buffer: no FIT buffer is written to stdout (only log records are),
\* getvalue() is never called, nothing is uploaded to Garmin, TrainerRoad is
\* not updated and setLastSync is not called.
C4_EmptyRejected ==
    NoWeightBearingInput =>
        /\ pc = "done" => ret = "-1"
        /\ FitWrites = <<>>
        /\ \A i \in 1..Len(stdout) : stdout[i].kind = "log"
        /\ Count(calls, "getvalue") = 0
        /\ ExtOps \cap UploadOps = {}

\* C4 witness: a non-empty list of groups without weight was processed in
\* no-upload mode and sync() returned -1.
C4_Witness ==
    /\ pc = "done"
    /\ ret = "-1"
    /\ no_upload
    /\ groups # None
    /\ Len(Val(groups)) = 2
    /\ NoWeightBearingInput
    /\ Count(calls, "finish") = 1

\* C5: the encoder sees write_file_info, write_file_creator, the record
\* writes, finish and only then getvalue: finish is called at most once and
\* exactly once when the loop is over, after finish only getvalue is called,
\* and getvalue is never called before finish.
C5_EncoderLifecycle ==
    /\ idx >= 1 => /\ Len(calls) >= 2
                   /\ calls[1].op = "write_file_info"
                   /\ calls[2].op = "write_file_creator"
    /\ \A i \in 3..Len(calls) :
           calls[i].op \in {"write_device_info", "write_weight_scale", "finish", "getvalue"}
    /\ Count(calls, "finish") <= 1
    /\ (idx >= 1 /\ pc \in {"finished", "garmin", "done"}) => Count(calls, "finish") = 1
    /\ pc = "loop" => Count(calls, "finish") = 0
    /\ \A i \in 1..Len(calls) : \A j \in (i + 1)..Len(calls) :
           calls[i].op = "finish" => calls[j].op = "getvalue"
    /\ \A j \in 1..Len(calls) :
           calls[j].op = "getvalue" => \E i \in 1..(j - 1) : calls[i].op = "finish"

\* C5 witness: a run that wrote two records, finished and read the buffer.
C5_Witness ==
    /\ pc = "done"
    /\ Len(WeightScaleCalls) = 2
    /\ Len(calls) = 8
    /\ calls[7].op = "finish"
    /\ calls[8].op = "getvalue"

\* C6: whenever the encoder exists, write_file_info is its first call and
\* write_file_creator its second, each is called exactly once, and so both
\* precede every write_device_info and write_weight_scale.
C6_FileInfoFirst ==
    /\ idx = 0 => calls = <<>>
    /\ idx >= 1 =>
        /\ Len(calls) >= 2
        /\ calls[1] = FileInfoCall
        /\ calls[2] = FileCreatorCall
        /\ Count(calls, "write_file_info") = 1
        /\ Count(calls, "write_file_creator") = 1

\* C6 witness: the encoder received its two file-level records and then the
\* records of a group.
C6_Witness ==
    /\ pc = "loop"
    /\ Len(calls) = 4
    /\ calls[1].op = "write_file_info"
    /\ calls[2].op = "write_file_creator"
    /\ calls[3].op = "write_device_info"
    /\ calls[4].op = "write_weight_scale"

\* C7 as stated: in every write_weight_scale call bmi is present exactly when
\* the height and the weight are known (not None, 0 included), and then it is
\* round(weight / height^2, 1).  (For a height of 0 the quotient is undefined
\* and the formula asks nothing.)
C7_BmiPresence ==
    height # Some(0) =>
    \A i \in 1..Len(WeightScaleCalls) :
        LET c == WeightScaleCalls[i] IN
        /\ (c.bmi # None) <=> (height # None /\ c.weight # None)
        /\ c.bmi # None =>
               c.bmi = Some(RoundDiv(1000 * Val(c.weight), Val(height) * Val(height)))

\* C8 as stated: in every write_weight_scale call percent_hydration is present
\* exactly when the group's hydration mass and weight are available (not None,
\* 0 included), and then it is hydration * 100 / weight.  (For a weight of 0
\* the quotient is undefined and the formula asks nothing.)
C8_HydrationPercent ==
    LET wb == WeightBearing(Processed)
        ws == WeightScaleCalls
    IN  /\ Len(ws) = Len(wb)
        /\ \A k \in 1..Len(ws) : wb[k].weight # Some(0) =>
            /\ (ws[k].percent_hydration # None)
                   <=> (wb[k].hydration # None /\ wb[k].weight # None)
            /\ ws[k].percent_hydration # None =>
                   ws[k].percent_hydration
                       = Some(Frac(100 * Val(wb[k].hydration), Val(wb[k].weight)))

\* What sync() has done once it returned in no-upload mode with a weight.
NoUploadOutcome ==
    (no_upload /\ ~NoWeightBearingInput /\ pc = "done") =>
        /\ ret = "0"
        /\ Len(FitWrites) = 1
        /\ FitWrites[1].data = FitBuffer(calls)
        /\ Count(calls, "getvalue") = 1
        /\ ExtOps \cap UploadOps = {}

\* C9 as stated: in no-upload mode with a weight the buffer is written to
\* stdout once, sync() returns 0 and nothing is uploaded; without no_upload
\* nothing is written to stdout.
C9_Original ==
    /\ NoUploadOutcome
    /\ ~no_upload => stdout = <<>>

\* C9 amended: the buffer goes to stdout or to the upload, never both: in
\* no-upload mode with a weight it is written to stdout once, sync() returns 0
\* and nothing is uploaded; without no_upload no FIT buffer is written to
\* stdout (only log records are).
C9_OneDestination ==
    /\ NoUploadOutcome
    /\ ~no_upload => FitWrites = <<>>
    /\ Len(FitWrites) <= 1
    /\ ~(FitWrites # <<>> /\ "garmin.upload_file" \in ExtOps)

\* C9 witness: both usernames are set, yet in no-upload mode the run ended
\* with the buffer on stdout and without any TrainerRoad or Garmin call.
C9_Witness ==
    /\ pc = "done"
    /\ no_upload
    /\ ret = "0"
    /\ TruthyStr(trainerroad_username)
    /\ TruthyStr(garmin_username)
    /\ Len(FitWrites) = 1
    /\ ExtOps \cap UploadOps = {}

\* C10: the write_weight_scale calls are the weight-bearing groups processed so
\* far, in input order, each once; when the loop is over every group has been
\* processed.
C10_OrderPreserved ==
    LET wb == WeightBearing(Processed)
        ws == WeightScaleCalls
    IN  /\ Len(ws) = Len(wb)
        /\ \A k \in 1..Len(ws) :
               ws[k].timestamp = wb[k].dt /\ ws[k].weight = wb[k].weight
        /\ (idx >= 1 /\ pc \in {"finished", "garmin", "done"}) => Processed = Val(groups)

\* C10 witness: two weight-bearing groups given with the later timestamp
\* first were written in that (input) order.
C10_Witness ==
    /\ pc = "finished"
    /\ Len(Val(groups)) = 2
    /\ Len(WeightScaleCalls) = 2
    /\ Val(groups)[1].dt > Val(groups)[2].dt
    /\ WeightScaleCalls[1].timestamp = Val(groups)[1].dt
    /\ WeightScaleCalls[2].timestamp = Val(groups)[2].dt
    /\ WeightScaleCalls[1].weight = Some(0)

\* The two records the encoder receives for a weight-bearing group g at the
\* height h, as a function of these two alone.
RecordsOf(g, h) ==
    << [op |-> "write_device_info", timestamp |-> g.dt],
       [op |-> "write_weight_scale", timestamp |-> g.dt,
        weight |-> g.weight, percent_fat |-> g.fat_ratio,
        percent_hydration |-> ComputeHydration(g.hydration, g.weight),
        bone_mass |-> g.bone_mass, muscle_mass |-> g.muscle_mass,
        bmi |-> ComputeBmi(h, g.weight)] >>

\* The pair <<last_dt, last_weight>> for the weight-bearing groups wb, as a
\* function of wb alone.
LastOf(wb) ==
    IF wb = <<>> THEN <<None, None>>
    ELSE LET t == MaxDt(wb) IN <<Some(t), wb[FirstAt(wb, t)].weight>>

\* C11: the encoder calls through finish() (hence the buffer), last_dt and
\* last_weight are a function of the group sequence and the height alone: two
\* runs with the same groups and height agree on them, whatever the other
\* arguments and the outcome of the upload are.
C11_Deterministic ==
    idx >= 1 =>
        LET got == FitBuffer(calls)
            wb  == WeightBearing(Processed)
            end == IF pc = "loop" THEN 0 ELSE 1
        IN  /\ Len(got) = 2 + 2 * Len(wb) + end
            /\ got[1] = [op |-> "write_file_info"]
            /\ got[2] = [op |-> "write_file_creator"]
            /\ \A k \in 1..Len(wb) :
                   /\ got[2 * k + 1].op = "write_device_info"
                   /\ got[2 * k + 2].op = "write_weight_scale"
                   /\ <<got[2 * k + 1], got[2 * k + 2]>> = RecordsOf(wb[k], height)
            /\ end = 1 => got[Len(got)] = [op |-> "finish"]
            /\ <<last_dt, last_weight>> = LastOf(wb)

\* C11 witness: a verbose run that uploaded to Garmin has written two groups,
\* with a bmi and a hydration percentage, and returned.
C11_Witness ==
    /\ pc = "done"
    /\ verbose
    /\ ~no_upload
    /\ "garmin.upload_file" \in ExtOps
    /\ Len(WeightScaleCalls) = 2
    /\ WeightScaleCalls[1].bmi # None
    /\ WeightScaleCalls[2].percent_hydration # None

\* The input of the end-to-end scenario: height 1.75 m and one group with
\* weight 70.0 kg, hydration 35.0 kg and no fat ratio, muscle or bone mass.
IsScenarioGroup(g) ==
    /\ g.weight = Some(7000)
    /\ g.hydration = Some(3500)
    /\ g.fat_ratio = None /\ g.muscle_mass = None /\ g.bone_mass = None

ScenarioInput ==
    /\ height = Some(175)
    /\ groups # None
    /\ IF groups = None THEN FALSE
       ELSE Len(Val(groups)) = 1 /\ IsScenarioGroup(Val(groups)[1])

\* C12: for the scenario input there is exactly one write_weight_scale call,
\* with the group's timestamp, weight 70.0 (7000), bmi 22.9 (229),
\* percent_hydration 50.0 (5000 in 1/100) and percent_fat, muscle_mass and
\* bone_mass absent; and in every call the group's fat ratio, bone mass and
\* muscle mass are passed unchanged as percent_fat, bone_mass and muscle_mass.
C12_ArgumentMapping ==
    LET wb == WeightBearing(Processed)
        ws == WeightScaleCalls
    IN  /\ Len(ws) = Len(wb)
        /\ \A k \in 1..Len(ws) :
               /\ ws[k].percent_fat = wb[k].fat_ratio
               /\ ws[k].bone_mass = wb[k].bone_mass
               /\ ws[k].muscle_mass = wb[k].muscle_mass
        /\ (ScenarioInput /\ pc \in {"finished", "garmin", "done"}) =>
               /\ Len(ws) = 1
               /\ ws[1].timestamp = Val(groups)[1].dt
               /\ ws[1].weight = Some(7000)
               /\ ws[1].bmi = Some(229)
               /\ ws[1].percent_hydration # None
               /\ LET ph == Val(ws[1].percent_hydration)
                  IN  100 * ph[1] = 5000 * ph[2]
               /\ ws[1].percent_fat = None
               /\ ws[1].muscle_mass = None
               /\ ws[1].bone_mass = None

\* C12 witness: the scenario input was encoded into one record with bmi 22.9.
C12_Witness ==
    /\ pc = "finished"
    /\ ScenarioInput
    /\ Len(WeightScaleCalls) = 1
    /\ WeightScaleCalls[1].bmi = Some(229)

\* C13: every write_weight_scale call directly follows a write_device_info
\* call with the same timestamp, every write_device_info call is directly
\* followed by a write_weight_scale call, and so the two are called equally
\* often.
C13_DeviceInfoPerRecord ==
    /\ \A i \in 1..Len(calls) :
           calls[i].op = "write_weight_scale" =>
               /\ i > 1
               /\ calls[i - 1].op = "write_device_info"
               /\ calls[i - 1].timestamp = calls[i].timestamp
    /\ \A i \in 1..Len(calls) :
           calls[i].op = "write_device_info" =>
               /\ i < Len(calls)
               /\ calls[i + 1].op = "write_weight_scale"
    /\ Count(calls, "write_device_info") = Count(calls, "write_weight_scale")

\* C13 witness: finish() was called after two records with different
\* timestamps, each with its own device record.
C13_Witness ==
    /\ pc = "finished"
    /\ Len(calls) = 7
    /\ calls[3].op = "write_device_info" /\ calls[4].op = "write_weight_scale"
    /\ calls[5].op = "write_device_info" /\ calls[6].op = "write_weight_scale"
    /\ calls[3].timestamp # calls[5].timestamp
    /\ calls[7].op = "finish"

\* The position in ext of a successful / a failed garmin.upload_file call.
IsUpload(e, result) ==
    IF e.op = "garmin.upload_file" THEN e.result = result ELSE FALSE

\* C14: setLastSync() is called at most once, only in a run without fromdate
\* and only after a garmin.upload_file call that returned a true value; when
\* the upload failed, no Garmin username is set, a fromdate was given,
\* no_upload is set or sync() returned -1, setLastSync() is not called.
C14_LastSyncBookkeeping ==
    /\ Count(ext, "withings.setLastSync") <= 1
    /\ \A j \in 1..Len(ext) :
           ext[j].op = "withings.setLastSync" =>
               /\ fromdate = None
               /\ \E i \in 1..(j - 1) : IsUpload(ext[i], TRUE)
    /\ ( \/ \E i \in 1..Len(ext) : IsUpload(ext[i], FALSE)
         \/ ~TruthyStr(garmin_username)
         \/ fromdate # None
         \/ no_upload
         \/ ret = "-1" )
       => "withings.setLastSync" \notin ExtOps

\* C14 witness: a run without fromdate uploaded successfully and then called
\* setLastSync().
C14_Witness ==
    /\ pc = "done"
    /\ fromdate = None
    /\ Len(ext) >= 2
    /\ IsUpload(ext[Len(ext) - 1], TRUE)
    /\ ext[Len(ext)].op = "withings.setLastSync"

TrainerRoadOps == {"tr.connect", "tr.weight.get", "tr.weight", "tr.disconnect"}
GarminOps == {"garmin.login", "garmin.upload_file"}
TrainerRoadTrace == SelectSeq(ext, LAMBDA e : e.op \in TrainerRoadOps)

\* sync() is past the TrainerRoad block of lines 176-194.
PastTrainerRoad == pc = "garmin" \/ (pc = "done" /\ ret = "None")

\* C15: TrainerRoad is called only when a TrainerRoad username is set,
\* no_upload is not set and a last weight exists; then connect, the weight set
\* to last_weight rounded to one decimal and disconnect are called once each,
\* in this order (with one read of the weight before it is set), before any
\* Garmin login or upload and whatever the upload returns.
C15_TrainerRoadProtocol ==
    /\ TrainerRoadTrace # <<>> =>
           /\ TruthyStr(trainerroad_username)
           /\ ~no_upload
           /\ last_weight # None
    /\ ~PastTrainerRoad => TrainerRoadTrace = <<>>
    /\ (PastTrainerRoad /\ ~TruthyStr(trainerroad_username)) => TrainerRoadTrace = <<>>
    /\ (PastTrainerRoad /\ TruthyStr(trainerroad_username)) =>
           /\ Len(TrainerRoadTrace) = 4
           /\ TrainerRoadTrace[1].op = "tr.connect"
           /\ TrainerRoadTrace[2].op = "tr.weight.get"
           /\ TrainerRoadTrace[3].op = "tr.weight"
           /\ 10 * TrainerRoadTrace[3].value - Val(last_weight) \in -5..5
           /\ TrainerRoadTrace[4].op = "tr.disconnect"
    /\ \A i \in 1..Len(ext) : \A j \in 1..Len(ext) :
           (ext[i].op \in TrainerRoadOps /\ ext[j].op \in GarminOps) => i < j

\* C15 witness: TrainerRoad was updated to 71.0 kg for a last weight of
\* 71.04 kg, and the Garmin upload that followed failed.
C15_Witness ==
    /\ pc = "done"
    /\ last_weight = Some(7104)
    /\ Len(TrainerRoadTrace) = 4
    /\ TrainerRoadTrace[3].op = "tr.weight"
    /\ TrainerRoadTrace[3].value = 710
    /\ \E i \in 1..Len(ext) : IsUpload(ext[i], FALSE)

\* getMeasurements returned None or an empty list.
EmptyInput == IF groups = None THEN TRUE ELSE Val(groups) = <<>>

\* C16: when getMeasurements returns None or an empty list no encoder call is
\* ever made and sync() returns -1; when the list is not empty but no group
\* has a weight, the encoder receives write_file_info, write_file_creator and
\* finish, nothing else, and sync() returns -1.
C16_EarlyRejection ==
    /\ EmptyInput =>
           /\ calls = <<>>
           /\ pc = "done" => ret = "-1"
           /\ pc \in {"start", "fetched", "done"}
    /\ (~EmptyInput /\ NoWeightBearingInput /\ pc = "done") =>
           /\ Len(calls) = 3
           /\ calls[1].op = "write_file_info"
           /\ calls[2].op = "write_file_creator"
           /\ calls[3].op = "finish"
           /\ ret = "-1"

\* C16 witness: a list of one group without weight ended with -1 after the
\* three encoder calls.
C16_Witness ==
    /\ pc = "done"
    /\ ret = "-1"
    /\ groups # None
    /\ Len(calls) = 3
    /\ IF groups = None THEN FALSE ELSE Len(Val(groups)) = 1

\* The record of line 169 is on stdout.
InvalidWeightLogged ==
    \E i \in 1..Len(stdout) :
        IF stdout[i].kind = "log" THEN stdout[i].data = "Invalid weight" ELSE FALSE

\* C17: in the loop and after it, last_weight is None exactly when last_dt is
\* None, exactly when no weight-bearing group has been processed; the
\* 'Invalid weight' failure occurs exactly when a non-empty input has no
\* weight-bearing group; and a last_weight that is not None is the weight of a
\* processed group whose timestamp is last_dt.
C17_LoopInvariant ==
    /\ (last_weight = None) <=> (last_dt = None)
    /\ (last_dt = None) <=> (WeightBearing(Processed) = <<>>)
    /\ InvalidWeightLogged =>
           /\ pc = "done" /\ ret = "-1"
           /\ ~EmptyInput /\ NoWeightBearingInput
    /\ (pc = "done" /\ ~EmptyInput /\ NoWeightBearingInput) => InvalidWeightLogged
    /\ last_weight # None =>
           \E i \in 1..Len(Processed) :
               /\ Processed[i].weight = last_weight
               /\ Some(Processed[i].dt) = last_dt

\* C17 witness: the loop has skipped a group without weight (both still None)
\* and then taken a group with weight 0 as the last one.
C17_Witness ==
    /\ pc = "loop"
    /\ idx = 3
    /\ ~HasWeight(Val(groups)[1])
    /\ last_weight = Some(0)
    /\ last_dt = Some(Val(groups)[2].dt)

====
